---------------------------- MODULE Spec2Model ----------------------------
(***************************************************************************)
(* CodeCredX: the candidate-evaluation flow of flow.py, its ten nodes      *)
(* (nodes.py) and its callers (main.py, app.py).                           *)
(*                                                                         *)
(* One run of codecredx_flow.run(shared) is modelled as a state machine:   *)
(* the flow visits a node, calls prep(shared), exec(prep_res) and          *)
(* post(shared, prep_res, exec_res), and follows the edge of the label     *)
(* post returns.  Python passes lists and dicts by reference, so the       *)
(* value prep hands to exec may be the very object stored in shared; the   *)
(* variable alias records under which key it is stored, and an exec that   *)
(* mutates its argument in place mutates shared through it.                *)
(*                                                                         *)
(* Numbers: scores are kept in hundredths (cents) and rounded half-even,   *)
(* the decimal meaning of Python's round(x, 2); binary floating-point      *)
(* representation error is not modelled.                                   *)
(***************************************************************************)
EXTENDS Integers, Sequences, FiniteSets, TLC

(***************************************************************************)
(* Bounds of the model.                                                    *)
(***************************************************************************)
\* longest resume text read from a file, in URL mentions
MaxMentions == 2

(***************************************************************************)
(* Python values.                                                          *)
(***************************************************************************)
\* None where a string is expected
NoneStr == "<None>"
\* None where a number or a structured value is expected
PyNone == [t |-> "None"]
PyInt(n) == [t |-> "int", v |-> n]
PyText(s) == [t |-> "str", v |-> s]

\* Python truthiness of a string-or-None
Truthy(s) == s \notin {NoneStr, ""}

\* dict.get(k, default)
Get(d, k, default) == IF k \in DOMAIN d THEN d[k] ELSE default

\* d[k] = v
Put(d, k, v) == [x \in (DOMAIN d) \cup {k} |-> IF x = k THEN v ELSE d[x]]

\* the empty dict
EmptyDict == <<>>

Min(a, b) == IF a < b THEN a ELSE b

\* round(num/den, 0) with ties to the even integer, num >= 0, den > 0
RoundHalfEven(num, den) ==
    LET q == num \div den
        r == num % den
    IN  IF 2 * r < den THEN q
        ELSE IF 2 * r > den THEN q + 1
        ELSE IF q % 2 = 0 THEN q ELSE q + 1

\* round(num/den, 2), in cents
Round2(num, den) == RoundHalfEven(num * 100, den)

SeqsUpTo(S, n) == UNION {[1..k -> S] : k \in 0..n}

RECURSIVE SeqToSet(_)
SeqToSet(s) == IF s = <<>> THEN {} ELSE {Head(s)} \cup SeqToSet(Tail(s))

\* "x in list"
InList(x, list) == \E i \in 1..Len(list) : list[i] = x

(***************************************************************************)
(* Resume text.  A text is the sequence of URL mentions it holds; the      *)
(* regular expressions of URLExtractionNode only look at those.            *)
(*   kind  : which specific pattern the mention matches                    *)
(*   proto : whether "https://" is written in front of it                  *)
(*   sub   : a subdomain prefix ("www.") written before the host           *)
(***************************************************************************)
Mention(kind, proto, sub, host, owner, repo) ==
    [kind |-> kind, proto |-> proto, sub |-> sub, host |-> host,
     owner |-> owner, repo |-> repo]

\* a URL as stored in the Context: always "https://" host "/" owner "/" repo
Url(host, owner, repo) == [host |-> host, owner |-> owner, repo |-> repo]

\* the mentions a resume file of the model may hold: a repository written
\* without protocol, one written in full, and one with a capitalised host
Alphabet ==
    { Mention("github", FALSE, "", "github.com", "o", "r1"),
      Mention("github", TRUE,  "", "github.com", "o", "r2"),
      Mention("github", TRUE,  "", "GitHub.com", "o", "r2") }

Texts == SeqsUpTo(Alphabet, MaxMentions)

\* a resume text that names no repository, only a personal site
PlainText == <<Mention("other", TRUE, "", "johndoe.dev", "", "")>>

\* sample_resume_text of ResumeInputNode.exec, in the order of its lines
SampleResume ==
    << Mention("linkedin", TRUE, "www.", "linkedin.com", "in", "johndoe"),
       Mention("github", TRUE, "", "github.com", "octocat", "Spoon-Knife"),
       Mention("other",  TRUE, "", "johndoe.dev", "", ""),
       Mention("github", TRUE, "", "github.com", "org", "some-library"),
       Mention("github", TRUE, "", "github.com", "johndoe", "private-repo"),
       Mention("other",  TRUE, "", "medium.com", "@johndoe", "my-tech-blog-post"),
       Mention("github", TRUE, "", "github.com", "nonexistentuser", "nonexistentrepo12345"),
       Mention("github", TRUE, "", "github.com", "openai", "openai-python") >>

(***************************************************************************)
(* The resume file on disk: what open()/PdfReader do for a path.           *)
(***************************************************************************)
\* file_path.lower().endswith(...)
Ext(path) ==
    CASE path \in {"resume.pdf", "uploads/resume.pdf"} -> ".pdf"
      [] path \in {"resume.txt", "uploads/resume.txt"} -> ".txt"
      [] OTHER -> "other"

FileRead(outcome, content) == [outcome |-> outcome, content |-> content]

\* the (path, what reading it does) pairs a run may start from
ResumeFiles ==
    {[path |-> NoneStr, read |-> FileRead("unused", <<>>)],
     [path |-> "resume.docx", read |-> FileRead("unused", <<>>)]}
    \cup {[path |-> "resume.txt", read |-> FileRead(o, <<>>)] :
            o \in {"FileNotFoundError", "Exception"}}
    \cup {[path |-> "resume.txt", read |-> FileRead("ok", t)] :
            t \in Texts \cup {PlainText}}
    \cup {[path |-> "resume.pdf", read |-> FileRead(o, <<>>)] :
            o \in {"FileNotFoundError", "PdfReadError", "ok"}}
    \cup {[path |-> "resume.pdf", read |-> FileRead("ok", PlainText)]}

(***************************************************************************)
(* ResumeInputNode                                                         *)
(***************************************************************************)
\* a prep that falls back on a file name when the key is absent
ResumeInputNode_prep_DefaultPath(sh) == Get(sh, "resume_file_path", "resume.txt")

ResumeInputNode_prep(sh) == Get(sh, "resume_file_path", NoneStr)

\* an exec that returns what it read, empty or not
ResumeInputNode_exec_KeepEmpty(file_path, read) ==
    IF Truthy(file_path) /\ Ext(file_path) \in {".pdf", ".txt"} /\ read.outcome = "ok"
    THEN read.content
    ELSE SampleResume

\* every exception of the read is caught and forces the fallback; so does an
\* unsupported type, a missing path and an empty text
ResumeInputNode_exec(file_path, read) ==
    LET attempted == Truthy(file_path)
        supported == Ext(file_path) \in {".pdf", ".txt"}
        readOk    == attempted /\ supported /\ read.outcome = "ok"
        resume_content == IF readOk THEN read.content ELSE <<>>
        path_after == IF readOk THEN file_path ELSE NoneStr
    IN  IF ~Truthy(path_after) \/ resume_content = <<>>
        THEN SampleResume
        ELSE resume_content

\* the number of files exec opens: one for a path of a supported type
ResumeInputNode_reads(file_path) ==
    IF Truthy(file_path) /\ Ext(file_path) \in {".pdf", ".txt"} THEN 1 ELSE 0

ResumeInputNode_post(sh, exec_res) == Put(sh, "resume_text", PyText(exec_res))

(***************************************************************************)
(* URLExtractionNode                                                       *)
(***************************************************************************)
URLExtractionNode_prep(sh) == Get(sh, "resume_text", PyText(<<>>))

\* "if x not in list: list.append(x)"
AppendNew(list, x) == IF InList(x, list) THEN list ELSE Append(list, x)

\* github_project_pattern is compiled with re.IGNORECASE: it matches the host
\* in any letter case, and base_repo_url keeps the case as written
GithubPatternMatches(m) == m.kind = "github"

\* Phase 1: the GitHub project URLs, in order of appearance, each once
RECURSIVE GithubPhase(_, _)
GithubPhase(text, acc) ==
    IF text = <<>> THEN acc
    ELSE LET m == Head(text)
         IN  GithubPhase(Tail(text),
                 IF GithubPatternMatches(m)
                 THEN AppendNew(acc, Url(m.host, m.owner, m.repo))
                 ELSE acc)

\* Phase 2: linkedin_pattern / leetcode_pattern; the match starts at the bare
\* host, so a subdomain and the protocol before it are not part of the URL
RECURSIVE ProfilePhase(_, _, _)
ProfilePhase(text, kind, acc) ==
    IF text = <<>> THEN acc
    ELSE LET m == Head(text)
         IN  ProfilePhase(Tail(text), kind,
                 IF m.kind = kind
                 THEN AppendNew(acc, Url(m.host, m.owner, m.repo))
                 ELSE acc)

\* Phase 3: general_url_pattern needs the protocol; a URL already listed as a
\* GitHub project or as another URL is not added again
RECURSIVE GeneralPhase(_, _, _)
GeneralPhase(text, github_project_urls, acc) ==
    IF text = <<>> THEN acc
    ELSE LET m == Head(text)
             clean_url == Url(m.sub \o m.host, m.owner, m.repo)
         IN  GeneralPhase(Tail(text), github_project_urls,
                 IF m.proto /\ ~InList(clean_url, github_project_urls)
                            /\ ~InList(clean_url, acc)
                 THEN Append(acc, clean_url)
                 ELSE acc)

URLExtractionNode_exec(resume_text) ==
    LET github_project_urls == GithubPhase(resume_text, <<>>)
        profiles == ProfilePhase(resume_text, "leetcode",
                        ProfilePhase(resume_text, "linkedin", <<>>))
    IN  [github_project_urls |-> github_project_urls,
         other_urls |-> GeneralPhase(resume_text, github_project_urls, profiles)]

URLExtractionNode_post(sh, exec_res) ==
    Put(Put(sh, "github_project_urls", exec_res.github_project_urls),
        "other_urls", exec_res.other_urls)

(***************************************************************************)
(* The remote repository source: what requests.get answers for one         *)
(* repository (the metadata request, then the README request).             *)
(***************************************************************************)
\* stargazers_count of a response body; None when the body has no such key
Stars == {PyNone, PyInt(250), PyInt(20000)}

RepoOk(stars, fork, description) ==
    [kind |-> "ok", stars |-> stars, fork |-> fork, description |-> description]

\* raise_for_status() raises HTTPError; the request itself may time out or fail
RepoFailures ==
    {[kind |-> "HTTPError", code |-> c] : c \in {404, 403, 500}}
    \cup {[kind |-> "Timeout"], [kind |-> "RequestException"]}

\* the README request: a status code, and for 200 whether the body is base64
\* ("format") and whether it decodes to UTF-8 ("decodes")
Readme(status, format, decodes) ==
    [status |-> status, format |-> format, decodes |-> decodes]

ReadmeOk == Readme(200, TRUE, TRUE)

NoReadme == Readme(0, FALSE, FALSE)

Fetch(repo, readme) == [repo |-> repo, readme |-> readme]

\* the responses the model lets the remote give for a repository of a resume
\* file: every failure of the metadata request; a good repository with every
\* README outcome; every star count and fork flag with a good README; a body
\* without star count; and a repository with neither README nor description
Fetches ==
    {Fetch(r, NoReadme) : r \in RepoFailures}
    \cup {Fetch(RepoOk(PyInt(250), FALSE, "desc"), rd) :
            rd \in {Readme(200, FALSE, FALSE), Readme(200, TRUE, FALSE),
                    Readme(404, FALSE, FALSE), Readme(500, FALSE, FALSE)}}
    \cup {Fetch(RepoOk(s, f, "desc"), ReadmeOk) : s \in Stars \ {PyNone}, f \in BOOLEAN}
    \cup {Fetch(RepoOk(PyNone, FALSE, "desc"), ReadmeOk)}
    \cup {Fetch(RepoOk(PyInt(250), FALSE, NoneStr), Readme(404, FALSE, FALSE))}

\* the repositories of the simulated resume answer as its own lines say they
\* do: public, not found, or private (403 or 404)
SampleFetches(url) ==
    CASE url.repo = "Spoon-Knife" ->
            {Fetch(RepoOk(PyInt(250), FALSE, "desc"), ReadmeOk)}
      [] url.repo = "openai-python" ->
            {Fetch(RepoOk(PyInt(20000), FALSE, "desc"), ReadmeOk)}
      [] url.repo = "private-repo" ->
            {Fetch([kind |-> "HTTPError", code |-> c], NoReadme) : c \in {403, 404}}
      [] OTHER -> {Fetch([kind |-> "HTTPError", code |-> 404], NoReadme)}

Remote(url) == IF url.owner = "o" THEN Fetches ELSE SampleFetches(url)

(***************************************************************************)
(* GitHubAnalyzerNode                                                      *)
(***************************************************************************)
GitHubAnalyzerNode_prep(sh) == Get(sh, "github_project_urls", <<>>)

\* re.match(r'https?://github.com/([^/]+)/([^/]+)', url): no IGNORECASE here
OwnerRepoMatch(url) == url.host = "github.com"

HTTPErrorMsg(code) ==
    CASE code = 404 -> "Repository not found."
      [] code = 403 -> "Access forbidden (likely private repo or GitHub API rate limit exceeded)."
      [] OTHER -> "HTTP error"

\* issubclass(exc, cls) for the exception classes of the try block
IsSubclass(exc, cls) ==
    \/ exc = cls
    \/ cls = "RequestException" /\ exc \in {"HTTPError", "Timeout"}
    \/ cls = "Exception"

\* a try block with the HTTPError clause alone: a timeout, a network error and
\* a decoding error would leave exec
ExceptClauses_HTTPOnly == <<"HTTPError">>

\* the except clauses of the try block, in the order they are written
ExceptClauses == <<"HTTPError", "Timeout", "RequestException", "Exception">>

\* the clause that catches exc: the first one naming a class of it; "none"
\* when no clause does, and the exception leaves exec
CatchingClause(exc) ==
    LET hits == {k \in 1..Len(ExceptClauses) : IsSubclass(exc, ExceptClauses[k])}
    IN  IF hits = {} THEN "none"
        ELSE ExceptClauses[CHOOSE k \in hits : \A h \in hits : k <= h]

\* the try block of one URL: the exception that ended it ("none" when it ran
\* to its end) and project_data as the block left it
TryBlock(url, fetch) ==
    LET pending == [url |-> url, owner |-> url.owner, repo_name |-> url.repo,
                    status |-> "pending", metadata |-> EmptyDict,
                    readme_content |-> NoneStr, error |-> NoneStr,
                    summary |-> NoneStr, scores |-> EmptyDict]
        repo == fetch.repo
        rd == fetch.readme
        withMeta == [pending EXCEPT !.metadata =
                        [name |-> url.repo, description |-> repo.description,
                         stars |-> repo.stars, fork |-> repo.fork]]
        ended(exc, code, p) == [exc |-> exc, code |-> code, project |-> p]
    IN  IF repo.kind # "ok"
        THEN ended(repo.kind, IF repo.kind = "HTTPError" THEN repo.code ELSE 0, pending)
        ELSE IF rd.status = 200
        THEN IF rd.format
             THEN IF rd.decodes
                  THEN ended("none", 0,
                             [withMeta EXCEPT !.readme_content = "README",
                                              !.status = "success"])
                  \* base64.b64decode(...).decode('utf-8') raises
                  ELSE ended("UnicodeDecodeError", 0, withMeta)
             ELSE ended("none", 0,
                        [withMeta EXCEPT
                            !.error = "README content not in expected format.",
                            !.status = "success"])
        ELSE IF rd.status = 404
        THEN ended("none", 0, [withMeta EXCEPT !.error = "README.md not found.",
                                               !.status = "success"])
        ELSE ended("none", 0,
                   [withMeta EXCEPT !.error = "Failed to fetch README: HTTP Status",
                                    !.status = "success"])

\* except clauses that set the status and leave error as it is
Handled_StatusOnly(clause, code, project_data) ==
    [project_data EXCEPT !.status = "failed"]

\* what an except clause writes into project_data
Handled(clause, code, project_data) ==
    [project_data EXCEPT
        !.status = "failed",
        !.error = CASE clause = "HTTPError" -> HTTPErrorMsg(code)
                    [] clause = "Timeout" -> "Request timed out."
                    [] clause = "RequestException" -> "Network or general request error"
                    [] OTHER -> "An unexpected critical error occurred"]

\* one URL: [raised, project]; raised when no clause catches the exception
AnalyzeOne(url, fetch) ==
    LET r == TryBlock(url, fetch)
        clause == CatchingClause(r.exc)
    IN  IF r.exc = "none" THEN [raised |-> FALSE, project |-> r.project]
        ELSE IF clause = "none" THEN [raised |-> TRUE, project |-> r.project]
        ELSE [raised |-> FALSE, project |-> Handled(clause, r.code, r.project)]

\* a loop that puts each record in front: analyzed_projects.insert(0, ...)
AppendRecord_Prepend(analyzed_projects, project_data) ==
    <<project_data>> \o analyzed_projects

\* analyzed_projects.append(project_data), the last statement of the loop body
AppendRecord(analyzed_projects, project_data) == Append(analyzed_projects, project_data)

\* the loop over github_urls; a URL the pattern rejects is skipped ("continue").
\* The result is [raised, projects].
RECURSIVE AnalyzeFrom(_, _, _, _)
AnalyzeFrom(github_urls, fetches, i, analyzed_projects) ==
    IF i > Len(github_urls) THEN [raised |-> FALSE, projects |-> analyzed_projects]
    ELSE IF ~OwnerRepoMatch(github_urls[i])
    THEN AnalyzeFrom(github_urls, fetches, i + 1, analyzed_projects)
    ELSE LET r == AnalyzeOne(github_urls[i], fetches[i])
         IN  IF r.raised THEN [raised |-> TRUE, projects |-> analyzed_projects]
             ELSE AnalyzeFrom(github_urls, fetches, i + 1,
                              AppendRecord(analyzed_projects, r.project))

\* an exec that analyzes a demonstration repository when it is given no URL
GitHubAnalyzerNode_exec_DemoOnEmpty(github_urls, fetches) ==
    IF github_urls = <<>>
    THEN AnalyzeFrom(<<Url("github.com", "octocat", "Spoon-Knife")>>,
                     <<Fetch(RepoOk(PyInt(250), FALSE, "desc"), ReadmeOk)>>, 1, <<>>)
    ELSE AnalyzeFrom(github_urls, fetches, 1, <<>>)

GitHubAnalyzerNode_exec(github_urls, fetches) ==
    AnalyzeFrom(github_urls, fetches, 1, <<>>)

\* the number of requests.get calls of the loop: none for a skipped URL, one
\* when the metadata request fails, two otherwise; the loop ends where an
\* exception leaves it
RECURSIVE RequestsFrom(_, _, _)
RequestsFrom(github_urls, fetches, i) ==
    IF i > Len(github_urls) THEN 0
    ELSE IF ~OwnerRepoMatch(github_urls[i])
    THEN RequestsFrom(github_urls, fetches, i + 1)
    ELSE (IF fetches[i].repo.kind = "ok" THEN 2 ELSE 1)
         + (IF AnalyzeOne(github_urls[i], fetches[i]).raised THEN 0
            ELSE RequestsFrom(github_urls, fetches, i + 1))

GitHubAnalyzerNode_requests(github_urls, fetches) ==
    RequestsFrom(github_urls, fetches, 1)

\* a post that also replaces github_project_urls by the URLs it analyzed
GitHubAnalyzerNode_post_RewritesUrls(sh, exec_res) ==
    Put(Put(sh, "analyzed_github_projects", exec_res),
        "github_project_urls", [i \in 1..Len(exec_res) |-> exec_res[i].url])

GitHubAnalyzerNode_post(sh, exec_res) ==
    Put(sh, "analyzed_github_projects", exec_res)

\* the answers of the remote for a list of URLs: one per URL that is fetched
FetchChoices(github_urls) ==
    {f \in [1..Len(github_urls) ->
                UNION {Remote(github_urls[i]) : i \in 1..Len(github_urls)}
                \cup {Fetch([kind |-> "none"], NoReadme)}] :
        \A i \in 1..Len(github_urls) :
            IF OwnerRepoMatch(github_urls[i])
            THEN f[i] \in Remote(github_urls[i])
            ELSE f[i] = Fetch([kind |-> "none"], NoReadme)}

(***************************************************************************)
(* The text-generation collaborator as LLMSummarizerNode sees it: call_llm *)
(* returns the response text or raises Exception with one of its messages. *)
(***************************************************************************)
LLMOutcomes == {"ok", "unreachable", "status", "unparsable"}

call_llm(prompt, outcome) ==
    CASE outcome = "ok" -> [raised |-> FALSE, value |-> "LLM summary"]
      [] outcome = "unreachable" ->
            [raised |-> TRUE, value |-> "Ollama connection error"]
      [] outcome = "status" ->
            [raised |-> TRUE, value |-> "Ollama API call failed"]
      [] OTHER -> [raised |-> TRUE, value |-> "Parsing error"]

\* the outcome used where no call is made
NoCall == "none"

(***************************************************************************)
(* LLMSummarizerNode                                                       *)
(***************************************************************************)
LLMSummarizerNode_prep(sh) == Get(sh, "analyzed_github_projects", <<>>)

NoContentSummary == "No content available to summarize for this project."

\* whether the loop body calls call_llm for this project
NeedsLLM(project) ==
    /\ project.status = "success"
    /\ \/ Truthy(project.readme_content)
       \/ Truthy(Get(project.metadata, "description", NoneStr))

\* project["summary"] = ... : the loop body, which writes into the dict it is given
SummarizeOne(project, outcome) ==
    IF project.status = "success"
    THEN IF NeedsLLM(project)
         THEN LET prompt == IF Truthy(project.readme_content)
                            THEN "readme:" \o project.readme_content
                            ELSE "description:" \o project.metadata.description
                  r == call_llm(prompt, outcome)
              IN  IF r.raised
                  THEN [project EXCEPT !.summary =
                            "Error generating summary from LLM: " \o r.value]
                  ELSE [project EXCEPT !.summary = r.value]
         ELSE [project EXCEPT !.summary = NoContentSummary]
    ELSE [project EXCEPT !.summary =
            "Could not summarize: " \o
                (IF Truthy(project.error) THEN project.error ELSE "Analysis failed")]

\* updated_projects holds the dicts of analyzed_projects themselves, in order
LLMSummarizerNode_exec(analyzed_projects, outcomes) ==
    [i \in 1..Len(analyzed_projects) |->
        SummarizeOne(analyzed_projects[i], outcomes[i])]

\* the number of call_llm calls of the loop
LLMSummarizerNode_calls(analyzed_projects) ==
    Cardinality({i \in 1..Len(analyzed_projects) : NeedsLLM(analyzed_projects[i])})

LLMSummarizerNode_post(sh, exec_res) ==
    Put(sh, "analyzed_github_projects", exec_res)

LLMChoices(analyzed_projects) ==
    {o \in [1..Len(analyzed_projects) -> LLMOutcomes \cup {NoCall}] :
        \A i \in 1..Len(analyzed_projects) :
            IF NeedsLLM(analyzed_projects[i])
            THEN o[i] \in LLMOutcomes
            ELSE o[i] = NoCall}

\* "Error generating" in summary
HasErrorGenerating(summary) ==
    summary \in {"Error generating summary from LLM: " \o call_llm("", o).value :
                    o \in LLMOutcomes \ {"ok"}}

(***************************************************************************)
(* The per-project score stages.  Each loops over the list it is given     *)
(* and writes project["scores"][...] into the dicts of that list; the      *)
(* result of a loop is [raised, projects]: whether an exception left the   *)
(* loop, and the dicts as the loop left them.                              *)
(***************************************************************************)
ScoreCap == 100
OrigForkMin == 30
OrigForkMax == 70
ReadmeBonus == 30

SetScore(project, name, v) ==
    [project EXCEPT !.scores = Put(project.scores, name, v)]

ContributionNode_prep(sh) == Get(sh, "analyzed_github_projects", <<>>)

\* a score without the cap: round(stars / 100, 2)
ContributionScore_NoCap(stars) == Round2(stars.v, 100)

\* min(100, round(stars / 100, 2)), in cents; None / 100 raises TypeError
ContributionScore(stars) == Min(ScoreCap * 100, Round2(stars.v, 100))

RECURSIVE ContributionFrom(_, _)
ContributionFrom(projects, i) ==
    IF i > Len(projects) THEN [raised |-> FALSE, projects |-> projects]
    ELSE LET project == projects[i]
         IN  IF project.status = "success"
             THEN LET stars == Get(project.metadata, "stars", PyInt(0))
                  IN  IF stars = PyNone
                      THEN [raised |-> TRUE, projects |-> projects]
                      ELSE ContributionFrom(
                               [projects EXCEPT ![i] = SetScore(project,
                                   "contribution_score", ContributionScore(stars))],
                               i + 1)
             ELSE ContributionFrom(
                      [projects EXCEPT ![i] = SetScore(project, "contribution_score", 0)],
                      i + 1)

ContributionNode_exec(projects) == ContributionFrom(projects, 1)

ContributionNode_post(sh, exec_res) ==
    Put(sh, "analyzed_github_projects", exec_res)

OriginalityNode_prep(sh) == Get(sh, "analyzed_github_projects", <<>>)

\* the values of random.randint(30, 70) the model draws: both ends and the middle
RandInts == {OrigForkMin, (OrigForkMin + OrigForkMax) \div 2, OrigForkMax}

\* whether the loop body draws a random number for this project
IsForkDraw(project) ==
    project.status = "success" /\ Get(project.metadata, "fork", FALSE)

OriginalityOne(project, draw) ==
    IF project.status = "success"
    THEN SetScore(project, "originality_score",
             IF ~Get(project.metadata, "fork", FALSE) THEN 100 * 100 ELSE draw * 100)
    ELSE SetScore(project, "originality_score", 0)

OriginalityNode_exec(projects, draws) ==
    [raised |-> FALSE,
     projects |-> [i \in 1..Len(projects) |-> OriginalityOne(projects[i], draws[i])]]

OriginalityNode_post(sh, exec_res) ==
    Put(sh, "analyzed_github_projects", exec_res)

DrawChoices(projects) ==
    {d \in [1..Len(projects) -> RandInts \cup {0}] :
        \A i \in 1..Len(projects) :
            IF IsForkDraw(projects[i]) THEN d[i] \in RandInts ELSE d[i] = 0}

TrustHeuristicNode_prep(sh) == Get(sh, "analyzed_github_projects", <<>>)

\* round(min(100, bonus + contrib * 0.3 + orig * 0.7), 2), in cents; the sum is
\* formed in thousandths
TrustScore(project) ==
    LET bonus == IF /\ Truthy(project.readme_content)
                    /\ Truthy(project.summary)
                    /\ ~HasErrorGenerating(project.summary)
                    /\ project.summary # NoContentSummary
                 THEN ReadmeBonus ELSE 0
        contrib_score == Get(project.scores, "contribution_score", 0)
        orig_score == Get(project.scores, "originality_score", 0)
        trust_score_calc == bonus * 1000 + contrib_score * 3 + orig_score * 7
    IN  RoundHalfEven(Min(ScoreCap * 1000, trust_score_calc), 10)

TrustOne(project) ==
    IF project.status = "success"
    THEN SetScore(project, "trust_score", TrustScore(project))
    ELSE SetScore(project, "trust_score", 0)

TrustHeuristicNode_exec(projects) ==
    [raised |-> FALSE,
     projects |-> [i \in 1..Len(projects) |-> TrustOne(projects[i])]]

TrustHeuristicNode_post(sh, exec_res) ==
    Put(sh, "analyzed_github_projects", exec_res)

(***************************************************************************)
(* CandidateAggregationNode                                                *)
(***************************************************************************)
CandidateAggregationNode_prep(sh) == Get(sh, "analyzed_github_projects", <<>>)

\* an average that forgets the status test
Aggregated_AnyStatus(project) == "trust_score" \in DOMAIN project.scores

\* which projects enter the average
Aggregated(project) ==
    project.status = "success" /\ "trust_score" \in DOMAIN project.scores

RECURSIVE SuccessfulScores(_)
SuccessfulScores(projects) ==
    IF projects = <<>> THEN <<>>
    ELSE (IF Aggregated(Head(projects))
          THEN <<Head(projects).scores["trust_score"]>> ELSE <<>>)
         \o SuccessfulScores(Tail(projects))

RECURSIVE Sum(_)
Sum(s) == IF s = <<>> THEN 0 ELSE Head(s) + Sum(Tail(s))

\* an average cut to two decimals instead of rounded
Average_Truncated(successful_project_scores) ==
    IF successful_project_scores # <<>>
    THEN Sum(successful_project_scores) \div Len(successful_project_scores)
    ELSE 0

\* round(sum / len, 2) of scores held in cents; 0.0 for no score
Average(successful_project_scores) ==
    IF successful_project_scores # <<>>
    THEN RoundHalfEven(Sum(successful_project_scores), Len(successful_project_scores))
    ELSE 0

CandidateAggregationNode_exec(projects) ==
    LET successful_project_scores == SuccessfulScores(projects)
    IN  [overall_candidate_score |-> Average(successful_project_scores),
         num_successful_projects |-> Len(successful_project_scores)]

CandidateAggregationNode_post(sh, exec_res) ==
    Put(sh, "overall_candidate_metrics", exec_res)

(***************************************************************************)
(* EloRankingNode: writes elo_score and role_ranking_pool into the dict    *)
(* it is given and returns that dict.                                      *)
(***************************************************************************)
MinElo == 800
MaxElo == 2000

EloRankingNode_prep(sh) == Get(sh, "overall_candidate_metrics", EmptyDict)

\* a rating that forgets the min_elo term
EloScore_NoBase(overall_score) ==
    RoundHalfEven(overall_score * (MaxElo - MinElo), 100)

\* round(min_elo + (overall_score / 100) * (max_elo - min_elo), 2), in cents
EloScore(overall_score) ==
    RoundHalfEven(MinElo * 100 * 100 + overall_score * (MaxElo - MinElo), 100)

EloRankingNode_exec(candidate_metrics) ==
    LET overall_score == Get(candidate_metrics, "overall_candidate_score", 0)
    IN  Put(Put(candidate_metrics, "elo_score", EloScore(overall_score)),
            "role_ranking_pool", "General")

EloRankingNode_post(sh, exec_res) ==
    Put(sh, "overall_candidate_metrics", exec_res)

(***************************************************************************)
(* ReportGenerationNode.  The rendered text is kept as the record of the   *)
(* values written into it (the resume snippet is left out).                *)
(***************************************************************************)
ReportGenerationNode_prep(sh) ==
    [github_project_urls |-> Get(sh, "github_project_urls", <<>>),
     other_urls |-> Get(sh, "other_urls", <<>>),
     analyzed_github_projects |-> Get(sh, "analyzed_github_projects", <<>>),
     overall_candidate_metrics |-> Get(sh, "overall_candidate_metrics", EmptyDict)]

\* The numbers of the report are written by f"{value}", that is str(value).
\* A rendered number is the sequence of its characters.
DigitChars == <<"0", "1", "2", "3", "4", "5", "6", "7", "8", "9">>

\* str(n) of an int n >= 0
RECURSIVE PyStrInt(_)
PyStrInt(n) ==
    IF n < 10 THEN <<DigitChars[n + 1]>>
    ELSE PyStrInt(n \div 10) \o <<DigitChars[(n % 10) + 1]>>

\* a rendering with one decimal, f"{value:.1f}"
PyStrFloat_OneDecimal(cents) ==
    LET tenths == RoundHalfEven(cents, 10)
    IN  PyStrInt(tenths \div 10) \o <<".", DigitChars[(tenths % 10) + 1]>>

\* str(x) of a float x >= 0 that round(..., 2) produced, x held in cents: the
\* shortest decimal that reads back as x, with at least one decimal
PyStrFloat(cents) ==
    PyStrInt(cents \div 100) \o <<".">> \o
        (IF cents % 10 = 0
         THEN <<DigitChars[((cents % 100) \div 10) + 1]>>
         ELSE <<DigitChars[((cents % 100) \div 10) + 1], DigitChars[(cents % 10) + 1]>>)

\* f"{metrics.get(key, 'N/A')}": the two scores are floats, the count an int
RenderMetric(metrics, key) ==
    IF key \notin DOMAIN metrics THEN <<"N", "/", "A">>
    ELSE IF key = "num_successful_projects" THEN PyStrInt(metrics[key])
    ELSE PyStrFloat(metrics[key])

\* whether a score of a project is a Python int: the 0 of a failed project,
\* an originality score (100 or randint), and the 100 that min(100, ...)
\* returns; the other scores are floats returned by round(..., 2)
ScoreIsInt(project, score_name) ==
    \/ project.status # "success"
    \/ score_name = "originality_score"
    \/ project.scores[score_name] >= ScoreCap * 100

\* f"  - {score_name}: {score_value}"
RenderScore(project, score_name) ==
    IF ScoreIsInt(project, score_name)
    THEN PyStrInt(project.scores[score_name] \div 100)
    ELSE PyStrFloat(project.scores[score_name])

RenderProject(project) ==
    [repo_name |-> project.repo_name, url |-> project.url,
     status |-> project.status,
     error |-> IF Truthy(project.error) THEN project.error ELSE "",
     metadata |-> project.metadata,
     summary |-> IF Truthy(project.summary) THEN project.summary ELSE "Not available.",
     scores |-> [score_name \in DOMAIN project.scores |->
                    RenderScore(project, score_name)]]

ReportGenerationNode_exec(report_data) ==
    [t |-> "str",
     overall_score |->
        RenderMetric(report_data.overall_candidate_metrics, "overall_candidate_score"),
     elo_score |-> RenderMetric(report_data.overall_candidate_metrics, "elo_score"),
     num_successful_projects |->
        RenderMetric(report_data.overall_candidate_metrics, "num_successful_projects"),
     github_project_urls |-> report_data.github_project_urls,
     other_urls |-> report_data.other_urls,
     projects |-> [i \in 1..Len(report_data.analyzed_github_projects) |->
                      RenderProject(report_data.analyzed_github_projects[i])]]

ReportGenerationNode_post(sh, exec_res) == Put(sh, "candidate_report", exec_res)

\* what writing logs/candidate_report.md does: it succeeds, open() raises, or
\* write() raises after open() has truncated the file
WriteOutcomes == {"ok", "open fails", "write fails"}

\* the exception of a write outcome: IOError (OSError) or none
WriteException(w) == IF w = "ok" THEN "none" ELSE "IOError"

\* the file after the write
FileAfterWrite(file, text, w) ==
    CASE w = "ok" -> text
      [] w = "open fails" -> file
      [] OTHER -> [t |-> "truncated"]

\* a post whose write is not inside a try block
ReportExceptClauses_None == <<>>

\* the except clauses around the write
ReportExceptClauses == <<"IOError">>

\* whether post catches the exception of the write
ReportWriteCaught(exc) ==
    \E k \in 1..Len(ReportExceptClauses) : IsSubclass(exc, ReportExceptClauses[k])

(***************************************************************************)
(* The flow: create_codecredx_flow wires the ten nodes with ">>" (the      *)
(* "default" label) and starts at ResumeInputNode.  Flow.run visits the    *)
(* current node (prep, exec once, post) and follows the edge of the label  *)
(* post returned; no edge ends the run.                                    *)
(***************************************************************************)
Nodes ==
    <<"ResumeInputNode", "URLExtractionNode", "GitHubAnalyzerNode",
      "LLMSummarizerNode", "ContributionNode", "OriginalityNode",
      "TrustHeuristicNode", "CandidateAggregationNode", "EloRankingNode",
      "ReportGenerationNode">>

StartNode == "ResumeInputNode"

\* a wiring that chains originality_node straight to candidate_aggregation_node
Successors_SkipTrust(n) ==
    CASE n = "ResumeInputNode" -> [default |-> "URLExtractionNode"]
      [] n = "URLExtractionNode" -> [default |-> "GitHubAnalyzerNode"]
      [] n = "GitHubAnalyzerNode" -> [default |-> "LLMSummarizerNode"]
      [] n = "LLMSummarizerNode" -> [default |-> "ContributionNode"]
      [] n = "ContributionNode" -> [default |-> "OriginalityNode"]
      [] n = "OriginalityNode" -> [default |-> "CandidateAggregationNode"]
      [] n = "CandidateAggregationNode" -> [default |-> "EloRankingNode"]
      [] n = "EloRankingNode" -> [default |-> "ReportGenerationNode"]
      [] OTHER -> <<>>

\* a wiring with one more edge: report_generation_node >> contribution_node
Successors_BackEdge(n) ==
    CASE n = "ResumeInputNode" -> [default |-> "URLExtractionNode"]
      [] n = "URLExtractionNode" -> [default |-> "GitHubAnalyzerNode"]
      [] n = "GitHubAnalyzerNode" -> [default |-> "LLMSummarizerNode"]
      [] n = "LLMSummarizerNode" -> [default |-> "ContributionNode"]
      [] n = "ContributionNode" -> [default |-> "OriginalityNode"]
      [] n = "OriginalityNode" -> [default |-> "TrustHeuristicNode"]
      [] n = "TrustHeuristicNode" -> [default |-> "CandidateAggregationNode"]
      [] n = "CandidateAggregationNode" -> [default |-> "EloRankingNode"]
      [] n = "EloRankingNode" -> [default |-> "ReportGenerationNode"]
      [] n = "ReportGenerationNode" -> [default |-> "ContributionNode"]
      [] OTHER -> EmptyDict

\* the edges "a >> b" of create_codecredx_flow, by node and label
Successors(n) ==
    CASE n = "ResumeInputNode" -> [default |-> "URLExtractionNode"]
      [] n = "URLExtractionNode" -> [default |-> "GitHubAnalyzerNode"]
      [] n = "GitHubAnalyzerNode" -> [default |-> "LLMSummarizerNode"]
      [] n = "LLMSummarizerNode" -> [default |-> "ContributionNode"]
      [] n = "ContributionNode" -> [default |-> "OriginalityNode"]
      [] n = "OriginalityNode" -> [default |-> "TrustHeuristicNode"]
      [] n = "TrustHeuristicNode" -> [default |-> "CandidateAggregationNode"]
      [] n = "CandidateAggregationNode" -> [default |-> "EloRankingNode"]
      [] n = "EloRankingNode" -> [default |-> "ReportGenerationNode"]
      [] OTHER -> EmptyDict

NoNode == "none"

\* the node the flow goes to after node n returned label
GetNextNode(n, label) == Get(Successors(n), label, NoNode)

(***************************************************************************)
(* The callers' inputs.                                                    *)
(***************************************************************************)
ProfileUrls == {NoneStr, "https://github.com/o"}

\* the repositories the remote profile source lists for a profile URL
ProfileRepos(profile_url) ==
    IF Truthy(profile_url)
    THEN <<Url("github.com", "o", "r2"), Url("github.com", "o", "r3")>>
    ELSE <<>>

\* the (--resume, --profile) pairs a run may start from: every resume file
\* without a profile, and with a profile every file but the longest texts
Inputs ==
    {[file |-> f, profile |-> p] : f \in ResumeFiles, p \in ProfileUrls}
    \ {[file |-> f, profile |-> p] :
          f \in {g \in ResumeFiles : Len(g.read.content) = MaxMentions},
          p \in ProfileUrls \ {NoneStr}}

\* the dict main() builds before codecredx_flow.run(shared)
MainShared(resume_file_path, github_profile_url) ==
    [resume_text |-> PyNone,
     github_project_urls |-> <<>>,
     other_urls |-> <<>>,
     analyzed_github_projects |-> <<>>,
     overall_candidate_metrics |-> EmptyDict,
     candidate_report |-> PyNone,
     resume_file_path |-> resume_file_path,
     github_profile_url |-> github_profile_url]

(***************************************************************************)
(* State.                                                                  *)
(***************************************************************************)
VARIABLES
    shared,       \* the Context: the dict passed to flow.run
    fs,           \* what reading the resume file does (fixed for the run)
    node,         \* the node the flow is at
    phase,        \* "prep", "exec", "post": the call made next at node;
                  \* "done": run returned; "raised": an exception left run
    prep_res,     \* what prep returned
    exec_res,     \* what exec returned
    alias,        \* the key of shared under which the object prep_res is stored
    report_file,  \* logs/candidate_report.md
    io_calls,     \* history: the files opened and remote calls made by the
                  \* latest prep, exec or post
    trace,        \* history: the calls made so far, <<node, method>>
    ctx_at_post,  \* history: shared as the latest post (or the caller) left it
    \* call_llm (utils/call_llm.py)
    cache_file,   \* llm_cache.json
    llm_ret,      \* the latest call of call_llm: its arguments and its outcome
    saved,        \* history: prompt -> response of the calls that saved their cache
    n_calls,      \* the number of calls of call_llm made
    \* submit (app.py)
    db,           \* the candidate table: the records committed, oldest first
    uploads,      \* the uploads folder: path -> what reading the file does
    req,          \* the submission submit() is handling
    n_submits,    \* the number of submissions received
    \* two submissions handled at overlapping times
    pc,           \* per handler: the I/O step it makes next
    local         \* per handler: its form data and its local variables

flowVars == <<shared, fs, node, phase, prep_res, exec_res, alias, report_file,
              io_calls, trace, ctx_at_post>>

cacheVars == <<cache_file, llm_ret, saved, n_calls>>

appVars == <<db, uploads, req, n_submits>>

concVars == <<pc, local>>

vars == <<flowVars, cacheVars, appVars, concVars>>

Nil == <<>>

NoAlias == "none"

\* llm_cache.json: absent, unreadable as JSON, or holding a dict
AbsentFile == [state |-> "absent", data |-> EmptyDict]
CorruptFile == [state |-> "corrupt", data |-> EmptyDict]
JsonFile(cache) == [state |-> "json", data |-> cache]

NoReturn ==
    [prompt |-> "", use_cache |-> FALSE, raised |-> FALSE, value |-> "",
     contacted |-> FALSE, failed |-> FALSE]

\* no call of call_llm is modelled step by step
CacheIdle ==
    /\ cache_file = AbsentFile
    /\ llm_ret = NoReturn
    /\ saved = EmptyDict
    /\ n_calls = 0

\* no submission has been received
NoRequest == [stage |-> "none"]

AppIdle ==
    /\ db = <<>>
    /\ uploads = EmptyDict
    /\ req = NoRequest
    /\ n_submits = 0

\* no two handlers are modelled step by step
ConcIdle ==
    /\ pc = <<>>
    /\ local = <<>>

Init ==
    /\ CacheIdle
    /\ AppIdle
    /\ ConcIdle
    /\ \E inp \in Inputs :
          \/ shared = MainShared(inp.file.path, inp.profile) /\ fs = inp.file.read
          \/ /\ inp.file.path = NoneStr /\ inp.profile = NoneStr
             /\ shared = EmptyDict /\ fs = inp.file.read
    /\ node = StartNode
    /\ phase = "prep"
    /\ prep_res = Nil
    /\ exec_res = Nil
    /\ alias = NoAlias
    /\ report_file = PyNone
    /\ io_calls = 0
    /\ trace = <<>>
    /\ ctx_at_post = shared

(***************************************************************************)
(* The three calls of a visit, as the flow makes them.                     *)
(***************************************************************************)
\* prep(shared) returned value; key names the entry of shared that value is
AfterPrep(n, value, key) ==
    /\ node = n /\ phase = "prep"
    /\ prep_res' = value
    /\ alias' = IF key \in DOMAIN shared THEN key ELSE NoAlias
    /\ phase' = "exec"
    /\ trace' = Append(trace, <<n, "prep">>)
    /\ io_calls' = 0
    /\ UNCHANGED <<shared, fs, node, exec_res, report_file, ctx_at_post>>
    /\ UNCHANGED <<cacheVars, appVars, concVars>>

\* exec(prep_res) returned value and left shared as sh
AfterExec(n, value, sh) ==
    /\ node = n /\ phase = "exec"
    /\ exec_res' = value
    /\ shared' = sh
    /\ phase' = "post"
    /\ trace' = Append(trace, <<n, "exec">>)
    /\ UNCHANGED <<fs, node, prep_res, alias, report_file, ctx_at_post>>
    /\ UNCHANGED <<cacheVars, appVars, concVars>>

\* exec(prep_res) raised and left shared as sh: the exception leaves flow.run
ExecRaised(n, sh) ==
    /\ node = n /\ phase = "exec"
    /\ shared' = sh
    /\ phase' = "raised"
    /\ trace' = Append(trace, <<n, "exec">>)
    /\ UNCHANGED <<fs, node, prep_res, exec_res, alias, report_file, ctx_at_post>>
    /\ UNCHANGED <<cacheVars, appVars, concVars>>

\* post(shared, prep_res, exec_res) left shared as sh and returned label
AfterPost(n, sh, label) ==
    /\ node = n /\ phase = "post"
    /\ shared' = sh
    /\ ctx_at_post' = sh
    /\ trace' = Append(trace, <<n, "post">>)
    /\ prep_res' = Nil
    /\ exec_res' = Nil
    /\ alias' = NoAlias
    /\ IF GetNextNode(n, label) = NoNode
       THEN node' = n /\ phase' = "done"
       ELSE node' = GetNextNode(n, label) /\ phase' = "prep"
    /\ UNCHANGED fs
    /\ UNCHANGED <<cacheVars, appVars, concVars>>

\* post(shared, prep_res, exec_res) raised and left shared as sh
PostRaised(n, sh) ==
    /\ node = n /\ phase = "post"
    /\ shared' = sh
    /\ ctx_at_post' = sh
    /\ phase' = "raised"
    /\ trace' = Append(trace, <<n, "post">>)
    /\ UNCHANGED <<fs, node, prep_res, exec_res, alias>>
    /\ UNCHANGED <<cacheVars, appVars, concVars>>

\* an exec that wrote into the dicts of the list it was given: shared holds
\* those dicts when the list came from shared
InPlace(key, objects) == IF alias = key THEN Put(shared, key, objects) ELSE shared

Projects == "analyzed_github_projects"
Metrics == "overall_candidate_metrics"

\* a call that opens no file and makes no remote call
NoIO == io_calls' = 0 /\ UNCHANGED report_file

(***************************************************************************)
(* The actions: one per call of one node.                                  *)
(***************************************************************************)
ResumeInputPrep ==
    AfterPrep("ResumeInputNode", ResumeInputNode_prep(shared), "resume_file_path")

ResumeInputExec ==
    /\ AfterExec("ResumeInputNode", ResumeInputNode_exec(prep_res, fs), shared)
    /\ io_calls' = ResumeInputNode_reads(prep_res)

ResumeInputPost ==
    /\ AfterPost("ResumeInputNode", ResumeInputNode_post(shared, exec_res), "default")
    /\ NoIO

URLExtractionPrep ==
    AfterPrep("URLExtractionNode", URLExtractionNode_prep(shared), "resume_text")

URLExtractionExec ==
    /\ AfterExec("URLExtractionNode", URLExtractionNode_exec(prep_res.v), shared)
    /\ io_calls' = 0

URLExtractionPost ==
    /\ AfterPost("URLExtractionNode", URLExtractionNode_post(shared, exec_res), "default")
    /\ NoIO

GitHubAnalyzerPrep ==
    AfterPrep("GitHubAnalyzerNode", GitHubAnalyzerNode_prep(shared), "github_project_urls")

GitHubAnalyzerExec ==
    /\ node = "GitHubAnalyzerNode" /\ phase = "exec"
    /\ \E fetches \in FetchChoices(prep_res) :
          LET r == GitHubAnalyzerNode_exec(prep_res, fetches)
          IN  /\ IF r.raised
                 THEN ExecRaised("GitHubAnalyzerNode", shared)
                 ELSE AfterExec("GitHubAnalyzerNode", r.projects, shared)
              /\ io_calls' = GitHubAnalyzerNode_requests(prep_res, fetches)

GitHubAnalyzerPost ==
    /\ AfterPost("GitHubAnalyzerNode", GitHubAnalyzerNode_post(shared, exec_res), "default")
    /\ NoIO

LLMSummarizerPrep ==
    AfterPrep("LLMSummarizerNode", LLMSummarizerNode_prep(shared), Projects)

LLMSummarizerExec ==
    /\ node = "LLMSummarizerNode" /\ phase = "exec"
    /\ \E outcomes \in LLMChoices(prep_res) :
          LET updated_projects == LLMSummarizerNode_exec(prep_res, outcomes)
          IN  /\ AfterExec("LLMSummarizerNode", updated_projects,
                           InPlace(Projects, updated_projects))
              /\ io_calls' = LLMSummarizerNode_calls(prep_res)

LLMSummarizerPost ==
    /\ AfterPost("LLMSummarizerNode", LLMSummarizerNode_post(shared, exec_res), "default")
    /\ NoIO

ContributionPrep ==
    AfterPrep("ContributionNode", ContributionNode_prep(shared), Projects)

\* a TypeError of the loop leaves exec, and run, with the dicts written so far
ContributionExec ==
    /\ node = "ContributionNode" /\ phase = "exec"
    /\ LET r == ContributionNode_exec(prep_res)
       IN  IF r.raised
           THEN ExecRaised("ContributionNode", InPlace(Projects, r.projects))
           ELSE AfterExec("ContributionNode", r.projects,
                          InPlace(Projects, r.projects))
    /\ io_calls' = 0

ContributionPost ==
    /\ AfterPost("ContributionNode", ContributionNode_post(shared, exec_res), "default")
    /\ NoIO

OriginalityPrep ==
    AfterPrep("OriginalityNode", OriginalityNode_prep(shared), Projects)

OriginalityExec ==
    /\ node = "OriginalityNode" /\ phase = "exec"
    /\ \E draws \in DrawChoices(prep_res) :
          LET r == OriginalityNode_exec(prep_res, draws)
          IN  AfterExec("OriginalityNode", r.projects, InPlace(Projects, r.projects))
    /\ io_calls' = 0

OriginalityPost ==
    /\ AfterPost("OriginalityNode", OriginalityNode_post(shared, exec_res), "default")
    /\ NoIO

TrustHeuristicPrep ==
    AfterPrep("TrustHeuristicNode", TrustHeuristicNode_prep(shared), Projects)

TrustHeuristicExec ==
    /\ node = "TrustHeuristicNode" /\ phase = "exec"
    /\ LET r == TrustHeuristicNode_exec(prep_res)
       IN  AfterExec("TrustHeuristicNode", r.projects, InPlace(Projects, r.projects))
    /\ io_calls' = 0

TrustHeuristicPost ==
    /\ AfterPost("TrustHeuristicNode", TrustHeuristicNode_post(shared, exec_res), "default")
    /\ NoIO

CandidateAggregationPrep ==
    AfterPrep("CandidateAggregationNode", CandidateAggregationNode_prep(shared), Projects)

CandidateAggregationExec ==
    /\ AfterExec("CandidateAggregationNode",
                 CandidateAggregationNode_exec(prep_res), shared)
    /\ io_calls' = 0

CandidateAggregationPost ==
    /\ AfterPost("CandidateAggregationNode",
                 CandidateAggregationNode_post(shared, exec_res), "default")
    /\ NoIO

EloRankingPrep ==
    AfterPrep("EloRankingNode", EloRankingNode_prep(shared), Metrics)

EloRankingExec ==
    /\ node = "EloRankingNode" /\ phase = "exec"
    /\ LET candidate_metrics == EloRankingNode_exec(prep_res)
       IN  AfterExec("EloRankingNode", candidate_metrics,
                     InPlace(Metrics, candidate_metrics))
    /\ io_calls' = 0

EloRankingPost ==
    /\ AfterPost("EloRankingNode", EloRankingNode_post(shared, exec_res), "default")
    /\ NoIO

\* the dict prep builds is new: no entry of shared is that object
ReportGenerationPrep ==
    AfterPrep("ReportGenerationNode", ReportGenerationNode_prep(shared), NoAlias)

ReportGenerationExec ==
    /\ AfterExec("ReportGenerationNode", ReportGenerationNode_exec(prep_res), shared)
    /\ io_calls' = 0

\* candidate_report is assigned first; open(...)/write may then raise
\* IOError, which post catches and logs before it returns "default"
ReportGenerationPost ==
    /\ node = "ReportGenerationNode" /\ phase = "post"
    /\ \E w \in WriteOutcomes :
          /\ report_file' = FileAfterWrite(report_file, exec_res, w)
          /\ IF WriteException(w) = "none" \/ ReportWriteCaught(WriteException(w))
             THEN AfterPost("ReportGenerationNode",
                            ReportGenerationNode_post(shared, exec_res), "default")
             ELSE PostRaised("ReportGenerationNode",
                             ReportGenerationNode_post(shared, exec_res))
    /\ io_calls' = 1

Next ==
    \/ ResumeInputPrep \/ ResumeInputExec \/ ResumeInputPost
    \/ URLExtractionPrep \/ URLExtractionExec \/ URLExtractionPost
    \/ GitHubAnalyzerPrep \/ GitHubAnalyzerExec \/ GitHubAnalyzerPost
    \/ LLMSummarizerPrep \/ LLMSummarizerExec \/ LLMSummarizerPost
    \/ ContributionPrep \/ ContributionExec \/ ContributionPost
    \/ OriginalityPrep \/ OriginalityExec \/ OriginalityPost
    \/ TrustHeuristicPrep \/ TrustHeuristicExec \/ TrustHeuristicPost
    \/ CandidateAggregationPrep \/ CandidateAggregationExec \/ CandidateAggregationPost
    \/ EloRankingPrep \/ EloRankingExec \/ EloRankingPost
    \/ ReportGenerationPrep \/ ReportGenerationExec \/ ReportGenerationPost

Spec == Init /\ [][Next]_vars

\* flow.run is a loop that makes the next call as soon as the previous one
\* returned: a run that can take a step takes it
FairSpec == Spec /\ WF_vars(Next)

(***************************************************************************)
(* call_llm and its cache file, called one call after the other.  A call   *)
(* looks the prompt up in llm_cache.json, asks the service when the prompt *)
(* is not there, and writes the whole cache back.                          *)
(***************************************************************************)
\* the number of calls of call_llm a behaviour makes
MaxCalls == 3

Prompts == {"p", "q"}

\* the texts the service may answer; it need not answer a prompt the same
\* way twice
Responses == {"a", "b"}

\* what "with open(cache_file, 'w') as f: json.dump(cache, f)" does: it
\* succeeds, open() raises, or the dump raises after open() has truncated
\* the file
SaveOutcomes == {"ok", "open fails", "write fails"}

\* no run of the flow is in progress
FlowIdle ==
    /\ shared = EmptyDict
    /\ fs = FileRead("unused", <<>>)
    /\ node = StartNode
    /\ phase = "idle"
    /\ prep_res = Nil
    /\ exec_res = Nil
    /\ alias = NoAlias
    /\ report_file = PyNone
    /\ io_calls = 0
    /\ trace = <<>>
    /\ ctx_at_post = EmptyDict

\* cache = json.load(f); an exception of the load leaves cache = {}
LoadCache(file) == IF file.state = "json" THEN file.data ELSE EmptyDict

\* the file after the save of cache
CacheAfterSave(file, cache, save) ==
    CASE save = "ok" -> JsonFile(cache)
      [] save = "open fails" -> file
      [] OTHER -> CorruptFile

LLMReturn(prompt, use_cache, raised, value, contacted) ==
    [prompt |-> prompt, use_cache |-> use_cache, raised |-> raised,
     value |-> value, contacted |-> contacted, failed |-> raised]

\* call_llm(prompt, use_cache) with the cache file as it is, a service that
\* does `service` and answers `response`, and a save that does `save`:
\* [ret, file], what the call returns or raises and the file it leaves
call_llm_cached(prompt, use_cache, file, service, response, save) ==
    LET looked == use_cache /\ file.state # "absent"
        cache == IF looked THEN LoadCache(file) ELSE EmptyDict
        r == call_llm(prompt, service)
    IN  IF looked /\ prompt \in DOMAIN cache
        THEN [ret |-> LLMReturn(prompt, use_cache, FALSE, cache[prompt], FALSE),
              file |-> file]
        ELSE IF r.raised
        THEN [ret |-> LLMReturn(prompt, use_cache, TRUE, r.value, TRUE),
              file |-> file]
        ELSE [ret |-> LLMReturn(prompt, use_cache, FALSE, response, TRUE),
              file |-> IF use_cache
                       THEN CacheAfterSave(file, Put(cache, prompt, response), save)
                       ELSE file]

CacheInit == FlowIdle /\ CacheIdle /\ AppIdle /\ ConcIdle

\* one call of call_llm
CallLLM ==
    /\ n_calls < MaxCalls
    /\ \E prompt \in Prompts, use_cache \in BOOLEAN, service \in LLMOutcomes,
          response \in Responses, save \in SaveOutcomes :
          LET r == call_llm_cached(prompt, use_cache, cache_file, service,
                                   response, save)
          IN  /\ llm_ret' = r.ret
              /\ cache_file' = r.file
              /\ saved' = IF /\ use_cache /\ r.ret.contacted /\ ~r.ret.raised
                             /\ r.file = JsonFile(Put(LoadCache(cache_file),
                                                      prompt, response))
                          THEN Put(saved, prompt, response)
                          ELSE saved
    /\ n_calls' = n_calls + 1
    /\ UNCHANGED <<flowVars, appVars, concVars>>

CacheNext == CallLLM

SpecCache == CacheInit /\ [][CacheNext]_vars

(***************************************************************************)
(* submit of app.py: the handler of POST /submit.  It validates the form,  *)
(* saves the uploaded file, runs the flow on a Context of its own and      *)
(* commits one Candidate row.  The run in between is the run of the flow,  *)
(* made by the actions of Next.                                            *)
(***************************************************************************)
\* the number of submissions a behaviour receives
MaxSubmissions == 1

UPLOAD_FOLDER == "uploads"

\* request.files.get('resume_file') of a form without a file
NoFile == [filename |-> "", read |-> FileRead("unused", <<>>)]

\* the uploaded files of the model: the name the browser sent and what
\* reading the saved bytes does
DocxUpload == [filename |-> "resume.docx", read |-> FileRead("unused", <<>>)]
TxtUpload(text) == [filename |-> "resume.txt", read |-> FileRead("ok", text)]

\* request.form and request.files of one POST: an empty form, a file of a
\* type that is not accepted (the run then reads no file, as it does for a
\* profile alone), a text file alone, and a profile with a text file
Forms ==
    {[github_profile |-> NoneStr, resume_file |-> NoFile],
     [github_profile |-> NoneStr, resume_file |-> DocxUpload],
     [github_profile |-> NoneStr, resume_file |-> TxtUpload(PlainText)],
     [github_profile |-> "https://github.com/o",
      resume_file |-> TxtUpload(<<Mention("github", TRUE, "", "github.com", "o", "r2")>>)]}

\* '.' in filename and filename.rsplit('.', 1)[1].lower() in ALLOWED_EXTENSIONS
allowed_file(filename) == Ext(filename) \in {".pdf", ".txt"}

\* re.search(r'github\.com/([a-zA-Z0-9_-]+)', url, re.IGNORECASE)
extract_username_from_url(url) ==
    CASE url = "https://github.com/o" -> "o"
      [] OTHER -> "N/A"

\* the literal "Processing..." submit puts under candidate_report
ProcessingReport == [t |-> "str", literal |-> "Processing..."]

\* the dict submit builds before codecredx_flow.run(shared)
AppShared(resume_path, github_url) ==
    [resume_file_path |-> resume_path,
     github_profile_url |-> github_url,
     resume_text |-> PyNone,
     github_project_urls |-> <<>>,
     other_urls |-> <<>>,
     analyzed_github_projects |-> <<>>,
     overall_candidate_metrics |-> EmptyDict,
     candidate_report |-> ProcessingReport]

\* not github_url and (not resume_file or resume_file.filename == '')
FormRejected(form) ==
    ~Truthy(form.github_profile) /\ form.resume_file.filename = ""

\* resume_path: the path the upload is saved under, None when nothing is saved
ResumePath(form) ==
    IF form.resume_file.filename # "" /\ allowed_file(form.resume_file.filename)
    THEN UPLOAD_FOLDER \o "/" \o form.resume_file.filename
    ELSE NoneStr

\* a row built from the defaults alone
NewCandidate_Defaults(github_url, sh) ==
    [github_username |-> IF Truthy(github_url)
                         THEN extract_username_from_url(github_url)
                         ELSE "From_Resume",
     overall_score |-> 0,
     elo_score |-> MinElo * 100,
     report_markdown |-> [t |-> "str", literal |-> "Report could not be generated."]]

\* Candidate(...) of submit, scores in cents
NewCandidate(github_url, sh) ==
    LET metrics == Get(sh, "overall_candidate_metrics", EmptyDict)
        report_md == Get(sh, "candidate_report",
                         [t |-> "str", literal |-> "Report could not be generated."])
    IN  [github_username |-> IF Truthy(github_url)
                             THEN extract_username_from_url(github_url)
                             ELSE "From_Resume",
         overall_score |-> Get(metrics, "overall_candidate_score", 0),
         elo_score |-> Get(metrics, "elo_score", MinElo * 100),
         report_markdown |-> report_md]

\* no handler is between receiving its form and returning its redirect
HandlerFree == req.stage \in {"none", "rejected", "failed", "stored"}

\* submit up to flow.run: validation; the rejected form is answered at once
SubmitRejected ==
    /\ HandlerFree /\ n_submits < MaxSubmissions
    /\ \E form \in Forms :
          /\ FormRejected(form)
          /\ req' = [stage |-> "rejected", form |-> form]
    /\ n_submits' = n_submits + 1
    /\ UNCHANGED <<db, uploads>>
    /\ UNCHANGED <<flowVars, cacheVars, concVars>>

\* submit up to flow.run: validation, the upload saved, the Context built and
\* the run started
SubmitStart ==
    /\ HandlerFree /\ n_submits < MaxSubmissions
    /\ \E form \in Forms :
          LET resume_path == ResumePath(form)
          IN  /\ ~FormRejected(form)
              /\ uploads' = IF Truthy(resume_path)
                            THEN Put(uploads, resume_path, form.resume_file.read)
                            ELSE uploads
              /\ fs' = Get(uploads', resume_path, FileRead("unused", <<>>))
              /\ shared' = AppShared(resume_path, form.github_profile)
              /\ req' = [stage |-> "running", form |-> form]
    /\ ctx_at_post' = shared'
    /\ node' = StartNode
    /\ phase' = "prep"
    /\ prep_res' = Nil
    /\ exec_res' = Nil
    /\ alias' = NoAlias
    /\ io_calls' = 0
    /\ trace' = <<>>
    /\ n_submits' = n_submits + 1
    /\ UNCHANGED <<db, report_file>>
    /\ UNCHANGED <<cacheVars, concVars>>

\* except Exception of submit: flash and redirect, no row
SubmitFailed ==
    /\ req.stage = "running" /\ phase = "raised"
    /\ req' = [req EXCEPT !.stage = "failed"]
    /\ UNCHANGED <<db, uploads, n_submits>>
    /\ UNCHANGED <<flowVars, cacheVars, concVars>>

\* submit after flow.run returned: the row added and committed
SubmitStore ==
    /\ req.stage = "running" /\ phase = "done"
    /\ db' = Append(db, NewCandidate(req.form.github_profile, shared))
    /\ req' = [req EXCEPT !.stage = "stored"]
    /\ UNCHANGED <<uploads, n_submits>>
    /\ UNCHANGED <<flowVars, cacheVars, concVars>>

AppInit == FlowIdle /\ CacheIdle /\ AppIdle /\ ConcIdle

AppNext ==
    \/ SubmitRejected \/ SubmitStart \/ SubmitFailed \/ SubmitStore
    \/ (req.stage = "running" /\ Next)

SpecApp == AppInit /\ [][AppNext]_vars

(***************************************************************************)
(* Two POST /submit handled at overlapping times.  app.run serves each     *)
(* request on a thread of its own and submit takes no lock, so the steps   *)
(* of two handlers interleave.  A handler is followed through the steps    *)
(* that touch what the two share: the upload saved, the resume read, the   *)
(* cache file loaded, the service asked, the cache file saved, the report  *)
(* file written, the row committed.  Each handler uploads a text file and  *)
(* its run makes one call of call_llm; every read and write succeeds.      *)
(***************************************************************************)
Procs == {1, 2}

\* the names the two browsers may send for their file
Filenames == {"resume.txt", "cv.txt"}

\* the text each handler uploads
ConcTexts ==
    << <<Mention("github", TRUE, "", "github.com", "o", "r1")>>,
       <<Mention("github", TRUE, "", "github.com", "o", "r2")>> >>

\* the prompt LLMSummarizerNode builds for the repository a text names
PromptFor(text) == IF text = ConcTexts[1] THEN "p" ELSE "q"

\* os.path.join(app.config['UPLOAD_FOLDER'], filename)
UploadPath(i) == UPLOAD_FOLDER \o "/" \o local[i].filename

\* the report of a run: the text it analysed and the summary it got
ConcReport(i) == [resume_text |-> local[i].resume_text, summary |-> local[i].summary]

\* handler i moves to step `to` with its locals changed to rec
Step(i, from, to, rec) ==
    /\ pc[i] = from
    /\ pc' = [pc EXCEPT ![i] = to]
    /\ local' = [local EXCEPT ![i] = rec]
    /\ UNCHANGED <<shared, fs, node, phase, prep_res, exec_res, alias, io_calls,
                   trace, ctx_at_post, llm_ret, saved, n_calls, req, n_submits>>

\* submit: resume_file.save(resume_path)
UploadSave ==
    \E i \in Procs :
        /\ Step(i, "save", "read", local[i])
        /\ uploads' = Put(uploads, UploadPath(i), FileRead("ok", local[i].text))
        /\ UNCHANGED <<cache_file, report_file, db>>

\* ResumeInputNode.exec: open(file_path).read()
ResumeRead ==
    \E i \in Procs :
        /\ Step(i, "read", "llm_load",
                [local[i] EXCEPT !.resume_text = uploads[UploadPath(i)].content])
        /\ UNCHANGED <<uploads, cache_file, report_file, db>>

\* call_llm: the cache file read and the prompt looked up
CacheLoad ==
    \E i \in Procs :
        LET cache == LoadCache(cache_file)
            prompt == PromptFor(local[i].resume_text)
        IN  /\ IF prompt \in DOMAIN cache
               THEN Step(i, "llm_load", "report",
                         [local[i] EXCEPT !.cache = cache, !.summary = cache[prompt]])
               ELSE Step(i, "llm_load", "llm_request",
                         [local[i] EXCEPT !.cache = cache])
            /\ UNCHANGED <<uploads, cache_file, report_file, db>>

\* call_llm: the service asked
LLMRequest ==
    \E i \in Procs, response \in Responses :
        /\ Step(i, "llm_request", "llm_save", [local[i] EXCEPT !.summary = response])
        /\ UNCHANGED <<uploads, cache_file, report_file, db>>

\* call_llm: cache[prompt] = response_text and the whole cache written back
CacheSave ==
    \E i \in Procs :
        LET cache == Put(local[i].cache, PromptFor(local[i].resume_text),
                         local[i].summary)
        IN  /\ Step(i, "llm_save", "report", [local[i] EXCEPT !.cache = cache])
            /\ cache_file' = CacheAfterSave(cache_file, cache, "ok")
            /\ UNCHANGED <<uploads, report_file, db>>

\* ReportGenerationNode.post: the report file written
ReportWrite ==
    \E i \in Procs :
        /\ Step(i, "report", "store", local[i])
        /\ report_file' = FileAfterWrite(report_file, ConcReport(i), "ok")
        /\ UNCHANGED <<uploads, cache_file, db>>

\* submit: the row added and committed
CandidateStore ==
    \E i \in Procs :
        /\ Step(i, "store", "done", local[i])
        /\ db' = Append(db, [handler |-> i, report_markdown |-> ConcReport(i)])
        /\ UNCHANGED <<uploads, cache_file, report_file>>

ConcInit ==
    /\ FlowIdle /\ CacheIdle
    /\ db = <<>> /\ uploads = EmptyDict /\ req = NoRequest /\ n_submits = 0
    /\ pc = [i \in Procs |-> "save"]
    /\ \E f \in [Procs -> Filenames] :
          local = [i \in Procs |->
                     [filename |-> f[i], text |-> ConcTexts[i], resume_text |-> <<>>,
                      cache |-> EmptyDict, summary |-> ""]]

ConcNext ==
    \/ UploadSave \/ ResumeRead \/ CacheLoad \/ LLMRequest \/ CacheSave
    \/ ReportWrite \/ CandidateStore

SpecConc == ConcInit /\ [][ConcNext]_vars

(***************************************************************************)
(* Properties.                                                             *)
(***************************************************************************)
\* the project records and the metrics of the Context, [] and {} when absent
SharedProjects == Get(shared, Projects, <<>>)
SharedMetrics == Get(shared, Metrics, EmptyDict)
SharedUrls == Get(shared, "github_project_urls", <<>>)

Methods == <<"prep", "exec", "post">>

\* the thirty calls of a complete run, in the wired order
ExpectedCalls ==
    [i \in 1..(3 * Len(Nodes)) |->
        <<Nodes[((i - 1) \div 3) + 1], Methods[((i - 1) % 3) + 1]>>]

\* a successfully fetched repository whose body had no stargazers_count: the
\* one failure of the model that no stage classifies (None / 100 in
\* ContributionNode.exec)
Unclassified ==
    \E i \in 1..Len(SharedProjects) :
        /\ SharedProjects[i].status = "success"
        /\ Get(SharedProjects[i].metadata, "stars", PyInt(0)) = PyNone

IndexOf(list, x) == CHOOSE i \in 1..Len(list) : list[i] = x

InPlaceStages ==
    {"LLMSummarizerNode", "ContributionNode", "OriginalityNode", "TrustHeuristicNode"}

\* C1: every exec leaves the Context unchanged: no step taken while a node's
\* exec is the next call changes the value of any key of shared.
C1_ExecLeavesContext == [][phase = "exec" => shared' = shared]_vars

\* C2: when an exception has left flow.run, the Context is the Context as the
\* latest post left it (as the caller passed it, when no post ran).
C2_RaisedContextIsLastPost == phase = "raised" => shared = ctx_at_post

\* C3: the calls made so far are always a prefix of the thirty calls
\* prep, exec, post of the ten nodes in the wired order, and a run that
\* returned normally has made exactly those thirty calls.
C3_WiredOrderOnce ==
    /\ Len(trace) <= Len(ExpectedCalls)
    /\ \A i \in 1..Len(trace) : trace[i] = ExpectedCalls[i]
    /\ phase = "done" => trace = ExpectedCalls

\* C3 witness: a run returned normally although a repository fetch failed
C3_Witness ==
    /\ phase = "done"
    /\ \E i \in 1..Len(SharedProjects) : SharedProjects[i].status = "failed"

\* C4: an exception leaves flow.run only for the unclassified failure; the
\* run can always go on until it returns; and a run that returned has run
\* the exec of every node and has set candidate_report.
C4_ClassifiedFailuresContained ==
    /\ phase = "raised" => Unclassified
    /\ phase \notin {"done", "raised"} => ENABLED Next
    /\ phase = "done" =>
          /\ Get(shared, "candidate_report", PyNone) # PyNone
          /\ \A k \in 1..Len(Nodes) : InList(<<Nodes[k], "exec">>, trace)

\* C4 witness: a run whose resume PDF could not be read, with a repository
\* that was not found and a summary the text generation failed for, returned
\* with its report
C4_Witness ==
    /\ phase = "done"
    /\ fs.outcome = "PdfReadError"
    /\ \E i \in 1..Len(SharedProjects) :
          SharedProjects[i].error = "Repository not found."
    /\ \E i \in 1..Len(SharedProjects) :
          HasErrorGenerating(SharedProjects[i].summary)
    /\ Get(shared, "candidate_report", PyNone) # PyNone

\* C5: when GitHubAnalyzerNode.exec returned and the record of item i is a
\* failed one, every later item j of the input has a record of its own.
C5_LaterItemsGetRecords ==
    (node = "GitHubAnalyzerNode" /\ phase = "post") =>
        \A i \in 1..Len(prep_res), j \in 1..Len(prep_res) :
            (/\ i < j
             /\ \E k \in 1..Len(exec_res) :
                   exec_res[k].url = prep_res[i] /\ exec_res[k].status = "failed")
            => \E k \in 1..Len(exec_res) : exec_res[k].url = prep_res[j]

\* C6: at the end of a run github_project_urls is the union of the URLs found
\* in the resume and the repositories listed for github_profile_url.
C6_FanInUnion ==
    phase = "done" =>
        SeqToSet(SharedUrls) =
            SeqToSet(URLExtractionNode_exec(shared.resume_text.v).github_project_urls)
            \cup SeqToSet(ProfileRepos(Get(shared, "github_profile_url", NoneStr)))

\* C7: at the end of a run every repository listed for github_profile_url is
\* in github_project_urls and has a record in analyzed_github_projects.
C7_ProfileReposAnalyzed ==
    phase = "done" =>
        \A u \in SeqToSet(ProfileRepos(Get(shared, "github_profile_url", NoneStr))) :
            /\ InList(u, SharedUrls)
            /\ \E i \in 1..Len(SharedProjects) : SharedProjects[i].url = u

\* the case of C8: two URLs, two records, record i fetched and record j not found
OneOfTwoNotFound(i, j) ==
    /\ Len(SharedUrls) = 2
    /\ Len(SharedProjects) = 2
    /\ {i, j} = {1, 2}
    /\ SharedProjects[i].status = "success"
    /\ SharedProjects[j].status = "failed"
    /\ SharedProjects[j].error = "Repository not found."

\* C8: once the aggregate is stored, with two URLs of which one was fetched
\* and the other was not found, num_successful_projects is 1 and
\* overall_candidate_score is the trust_score of the fetched project.
C8_OneOfTwo ==
    \A i \in {1, 2}, j \in {1, 2} :
        (OneOfTwoNotFound(i, j) /\ "overall_candidate_score" \in DOMAIN SharedMetrics)
        => /\ SharedMetrics.num_successful_projects = 1
           /\ SharedMetrics.overall_candidate_score =
                 SharedProjects[i].scores.trust_score

\* C8 witness: such a run returned, with a score above zero
C8_Witness ==
    /\ phase = "done"
    /\ OneOfTwoNotFound(2, 1)
    /\ SharedMetrics.overall_candidate_score > 0

\* no record of the Context is a fetched repository
NoneResolved == \A i \in 1..Len(SharedProjects) : SharedProjects[i].status # "success"

\* C9: when no repository was fetched, no exception leaves the run, the
\* aggregate once stored is score 0 over 0 projects, and the rating once
\* stored is 800.
C9_NothingResolved ==
    NoneResolved =>
        /\ phase # "raised"
        /\ "overall_candidate_score" \in DOMAIN SharedMetrics =>
              /\ SharedMetrics.overall_candidate_score = 0
              /\ SharedMetrics.num_successful_projects = 0
        /\ "elo_score" \in DOMAIN SharedMetrics =>
              SharedMetrics.elo_score = MinElo * 100

\* C9 witness: a run with two URLs whose fetches both failed returned
C9_Witness ==
    /\ phase = "done"
    /\ Len(SharedProjects) = 2
    /\ NoneResolved
    /\ SharedMetrics.elo_score = MinElo * 100

\* C10: the records GitHubAnalyzerNode.exec returns are in the order of the
\* URLs it was given, and the lists the four later per-project stages return
\* hold the records of their input at the same positions.
C10_OrderKept ==
    /\ (node = "GitHubAnalyzerNode" /\ phase = "post") =>
          \A p \in 1..Len(exec_res), q \in 1..Len(exec_res) :
              p < q =>
                 /\ InList(exec_res[p].url, prep_res)
                 /\ InList(exec_res[q].url, prep_res)
                 /\ IndexOf(prep_res, exec_res[p].url) < IndexOf(prep_res, exec_res[q].url)
    /\ (node \in InPlaceStages /\ phase = "post") =>
          /\ Len(exec_res) = Len(prep_res)
          /\ \A i \in 1..Len(exec_res) : exec_res[i].url = prep_res[i].url

\* C10 witness: the analyzer returned two records, the first failed and the
\* second fetched
C10_Witness ==
    /\ node = "GitHubAnalyzerNode" /\ phase = "post"
    /\ Len(exec_res) = 2
    /\ exec_res[1].status = "failed"
    /\ exec_res[2].status = "success"

\* the stages that turn a list of items into a list of records
PerItemStages == {"GitHubAnalyzerNode"} \cup InPlaceStages

\* the latest call made was the exec of the node the flow is at
ExecJustCalled == Len(trace) > 0 /\ trace[Len(trace)] = <<node, "exec">>

\* C11: when the exec of a per-item stage was called with an empty list, it
\* did not raise, it returned an empty list and it made no remote call.
C11_EmptyInEmptyOut ==
    (node \in PerItemStages /\ ExecJustCalled /\ prep_res = <<>>) =>
        /\ phase = "post"
        /\ exec_res = <<>>
        /\ io_calls = 0

\* C11 witness: GitHubAnalyzerNode.exec has returned from a call with no URL
C11_Witness ==
    /\ node = "GitHubAnalyzerNode" /\ phase = "post"
    /\ prep_res = <<>>
    /\ exec_res = <<>>

\* the run has ended: flow.run returned, or an exception left it
Terminated == phase \in {"done", "raised"}

\* a step that moves the flow to another node moves it to a node no call was
\* made on before
NoRevisit == node' # node => \A m \in SeqToSet(Methods) : ~InList(<<node', m>>, trace)

\* C12: every run eventually ends, by flow.run returning or by an exception
\* leaving it; a run returns at ReportGenerationNode, whose label "default"
\* has no edge; and no step takes the flow to a node it has visited before.
C12_Terminates ==
    /\ <>Terminated
    /\ [](phase = "done" =>
            node = "ReportGenerationNode" /\ GetNextNode(node, "default") = NoNode)
    /\ [][NoRevisit]_vars

\* C12 witness: a run has returned at ReportGenerationNode after thirty calls
C12_Witness ==
    /\ phase = "done"
    /\ node = "ReportGenerationNode"
    /\ GetNextNode(node, "default") = NoNode
    /\ Len(trace) = 3 * Len(Nodes)

\* the call of method m of node n has been made
Called(n, m) == InList(<<n, m>>, trace)

\* a step leaves key k of the Context as it is: present with the same value,
\* or absent
KeepsKey(k) ==
    /\ k \in DOMAIN shared <=> k \in DOMAIN shared'
    /\ k \in DOMAIN shared => shared'[k] = shared[k]

\* C13: no step changes resume_file_path or github_profile_url; no step after
\* ResumeInputNode.post changes resume_text; no step after
\* URLExtractionNode.post changes github_project_urls or other_urls.
C13_WrittenKeysPersist ==
    [][/\ KeepsKey("resume_file_path")
       /\ KeepsKey("github_profile_url")
       /\ Called("ResumeInputNode", "post") => KeepsKey("resume_text")
       /\ Called("URLExtractionNode", "post") =>
             KeepsKey("github_project_urls") /\ KeepsKey("other_urls")]_vars

\* C13 witness: a run seeded with a profile URL has returned with a URL list
\* one of whose URLs has no record
C13_Witness ==
    /\ phase = "done"
    /\ Truthy(Get(shared, "github_profile_url", NoneStr))
    /\ Len(SharedUrls) > Len(SharedProjects)

\* the run was started on the empty Context {}: every caller of src/ seeds
\* resume_file_path and no node writes it
StartedEmpty == "resume_file_path" \notin DOMAIN shared

ProducedKeys ==
    {"resume_text", "github_project_urls", "other_urls",
     "analyzed_github_projects", "overall_candidate_metrics", "candidate_report"}

\* C14: the step of a prep leaves the Context unchanged; on the empty Context
\* ResumeInputNode.prep returns None for the absent path, no exception leaves
\* the run, and the run returns with the six produced keys set.
C14_PrepFrameAndDefaults ==
    [][/\ phase = "prep" => shared' = shared
       /\ (StartedEmpty /\ node = "ResumeInputNode" /\ phase = "prep") =>
             prep_res' = NoneStr
       /\ StartedEmpty =>
             /\ phase' # "raised"
             /\ phase' = "done" => ProducedKeys \subseteq DOMAIN shared']_vars

\* C14 witness: a run started on {} has returned with its report
C14_Witness ==
    /\ StartedEmpty
    /\ phase = "done"
    /\ ProducedKeys \subseteq DOMAIN shared
    /\ shared.candidate_report # PyNone
    /\ Len(SharedProjects) > 0

\* the method of the latest call made
LastMethod == trace[Len(trace)][2]

\* C15: a prep or a post opens no file and makes no remote call: after any
\* call other than an exec, the number of files opened and remote calls
\* made by that call is zero.
C15_IOOnlyInExec ==
    (Len(trace) > 0 /\ LastMethod # "exec") => io_calls = 0

\* Reading a number back from the report, as float(text) does, in cents.
NotANumber == -1

IsDigit(c) == \E d \in 0..9 : DigitChars[d + 1] = c

DigitValue(c) == CHOOSE d \in 0..9 : DigitChars[d + 1] = c

RECURSIVE DigitsValue(_)
DigitsValue(chars) ==
    IF chars = <<>> THEN 0
    ELSE DigitsValue(SubSeq(chars, 1, Len(chars) - 1)) * 10
         + DigitValue(chars[Len(chars)])

ParseNumber(chars) ==
    LET dots == {i \in 1..Len(chars) : chars[i] = "."}
        wellformed ==
            /\ Len(chars) > 0
            /\ \A i \in 1..Len(chars) : chars[i] = "." \/ IsDigit(chars[i])
            /\ Cardinality(dots) <= 1
    IN  IF ~wellformed THEN NotANumber
        ELSE IF dots = {} THEN DigitsValue(chars) * 100
        ELSE LET d == CHOOSE i \in dots : TRUE
                 frac == SubSeq(chars, d + 1, Len(chars))
             IN  IF d = 1 \/ Len(frac) > 2 THEN NotANumber
                 ELSE DigitsValue(SubSeq(chars, 1, d - 1)) * 100
                      + (IF Len(frac) = 1 THEN DigitValue(frac[1]) * 10
                         ELSE DigitsValue(frac))

\* the text ReportGenerationNode.exec renders from the Context
Rendered == ReportGenerationNode_exec(ReportGenerationNode_prep(shared))

\* C16: once ReportGenerationNode.post was called the run has returned, with
\* candidate_report equal to the rendered text, whatever the write of the
\* report file did.
C16_ReportWriteNotFatal ==
    Called("ReportGenerationNode", "post") =>
        /\ phase = "done"
        /\ "candidate_report" \in DOMAIN shared
        /\ shared.candidate_report = Rendered

\* C16 witness: a run has returned with its report in the Context although
\* writing the report file failed after the file was opened
C16_Witness ==
    /\ phase = "done"
    /\ report_file = [t |-> "truncated"]
    /\ shared.candidate_report = Rendered
    /\ Len(SharedProjects) > 0

\* C17: once the report is stored, the three metrics read back from
\* candidate_report are the numbers of overall_candidate_metrics, the report
\* has one section per project record, and every score read back from a
\* section is the number of that record's scores.
C17_ReportRoundTrip ==
    Called("ReportGenerationNode", "post") =>
        LET r == shared.candidate_report
        IN  /\ ParseNumber(r.overall_score) = SharedMetrics.overall_candidate_score
            /\ ParseNumber(r.elo_score) = SharedMetrics.elo_score
            /\ ParseNumber(r.num_successful_projects) =
                  SharedMetrics.num_successful_projects * 100
            /\ Len(r.projects) = Len(SharedProjects)
            /\ \A i \in 1..Len(SharedProjects) :
                  /\ DOMAIN r.projects[i].scores = DOMAIN SharedProjects[i].scores
                  /\ \A score_name \in DOMAIN SharedProjects[i].scores :
                        ParseNumber(r.projects[i].scores[score_name]) =
                            SharedProjects[i].scores[score_name]

\* C17 witness: a report was stored whose overall score has two decimals
\* and whose rating has one
C17_Witness ==
    /\ phase = "done"
    /\ SharedMetrics.overall_candidate_score % 10 # 0
    /\ SharedMetrics.elo_score % 100 = 0
    /\ Len(shared.candidate_report.overall_score) = 5
    /\ Len(SharedProjects) = 2

\* C18: in every call of call_llm: when the call uses the cache and an
\* earlier call saved a response for its prompt, it returns that response
\* without asking the service; the responses saved for the other prompts are
\* still in the cache file after the call; and a call the service failed
\* raises and leaves the cache file as it was.
C18_CacheByPrompt ==
    [][LET c == llm_ret'
       IN  /\ (c.use_cache /\ c.prompt \in DOMAIN saved) =>
                 /\ ~c.raised
                 /\ c.value = saved[c.prompt]
                 /\ ~c.contacted
           /\ \A q \in DOMAIN saved :
                 q # c.prompt =>
                    /\ cache_file'.state = "json"
                    /\ q \in DOMAIN cache_file'.data
                    /\ cache_file'.data[q] = saved[q]
           /\ c.failed => c.raised /\ cache_file' = cache_file]_vars


\* submit returned after flow.run returned: the step that ends a running
\* submission with a row
Stored == req.stage = "running" /\ req'.stage = "stored"

\* C19: a valid submission whose run completes stores exactly one Candidate
\* row, and its overall score, Elo rating and report text are the values the
\* run of that submission left in its Context; no other step of the handler
\* (a rejected form, a run in progress, a run that raised) changes the table.
C19_OneRecordPerSubmission ==
    [][/\ Stored =>
            /\ phase = "done"
            /\ Len(db') = Len(db) + 1
            /\ SubSeq(db', 1, Len(db)) = db
            /\ LET c == db'[Len(db')]
                   produced == ctx_at_post[Metrics]
               IN  /\ c.overall_score = produced["overall_candidate_score"]
                   /\ c.elo_score = produced["elo_score"]
                   /\ c.report_markdown = ctx_at_post["candidate_report"]
                   /\ c.report_markdown # ProcessingReport
       /\ ~Stored => db' = db
       /\ (req.stage = "running" /\ phase = "done") => Stored
       /\ (req.stage = "running" /\ phase = "raised") => req'.stage = "failed"]_vars

\* a submission with a text file naming a repository was stored with a
\* positive score
C19_Witness ==
    /\ req.stage = "stored"
    /\ Truthy(req.form.github_profile)
    /\ Len(db) = 1
    /\ db[1].overall_score > 0
    /\ db[1].github_username = "o"


\* handler i has read its resume
HasRead(i) == pc[i] \notin {"save", "read"}

\* handler i is past its call of call_llm
PastLLM(i) == pc[i] \in {"report", "store", "done"}

\* C20: two submissions handled at overlapping times do not affect each
\* other through what they share: each run analyses the file its own
\* submission uploaded, the response of each run's call_llm is in the cache
\* file once both calls are over, and the report file holds the report of
\* the submission committed last.
C20_RunsDoNotInterfere ==
    /\ \A i \in Procs : HasRead(i) => local[i].resume_text = local[i].text
    /\ (\A i \in Procs : PastLLM(i)) =>
          \A i \in Procs :
              /\ cache_file.state = "json"
              /\ PromptFor(local[i].resume_text) \in DOMAIN cache_file.data
    /\ (\A i \in Procs : pc[i] = "done") =>
          report_file = db[Len(db)].report_markdown


\* the resume file of the run is a .txt or .pdf file that is read without an
\* exception and holds text
ReadWithText ==
    /\ Get(shared, "resume_file_path", NoneStr) \in
          {"resume.txt", "resume.pdf", "uploads/resume.txt", "uploads/resume.pdf"}
    /\ fs.outcome = "ok"
    /\ fs.content # <<>>

\* C21: the exec of ResumeInputNode never raises and returns a non-empty
\* text: the text of the file when a .txt or .pdf file was read with text in
\* it, the simulated resume in every other case (no path, a missing file, an
\* unsupported type, a file that cannot be parsed, an empty text); and its
\* post stores that text under resume_text and the run goes on.
C21_ResumeTextNeverEmpty ==
    [][/\ (node = "ResumeInputNode" /\ phase = "exec") =>
             /\ phase' = "post"
             /\ exec_res' # <<>>
             /\ exec_res' = IF ReadWithText THEN fs.content ELSE SampleResume
       /\ (node = "ResumeInputNode" /\ phase = "post") =>
             /\ phase' = "prep"
             /\ shared'["resume_text"] = PyText(exec_res)
             /\ shared'["resume_text"].v # <<>>]_vars

\* C21 witness: the text of a PDF file that was read has been stored
C21_Witness ==
    /\ Len(trace) = 3
    /\ shared["resume_file_path"] = "resume.pdf"
    /\ fs = FileRead("ok", PlainText)
    /\ shared["resume_text"] = PyText(PlainText)


\* the fields of a record that GitHubAnalyzerNode alone writes
AnalyzerFields == {"status", "url", "owner", "repo_name", "metadata", "error"}

\* C22: once the post of GitHubAnalyzerNode has stored the records, every
\* record has status "success" or "failed", every failed record has an error
\* that is not None, and no later step changes the number of records or the
\* status, url, owner, repo_name, metadata or error of a record.
C22_RecordsSettled ==
    [][/\ InList(<<"GitHubAnalyzerNode", "post">>, trace') =>
             \A i \in 1..Len(shared'[Projects]) :
                 /\ shared'[Projects][i].status \in {"success", "failed"}
                 /\ shared'[Projects][i].status = "failed" =>
                       shared'[Projects][i].error # NoneStr
       /\ InList(<<"GitHubAnalyzerNode", "post">>, trace) =>
             /\ Len(shared'[Projects]) = Len(shared[Projects])
             /\ \A i \in 1..Len(shared[Projects]), f \in AnalyzerFields :
                    shared'[Projects][i][f] = shared[Projects][i][f]]_vars

\* C22 witness: a run returned with a record whose README could not be
\* decoded: failed, with its error and with the metadata fetched before, and
\* with the scores the later stages wrote
C22_Witness ==
    /\ phase = "done"
    /\ \E i \in 1..Len(SharedProjects) :
          /\ SharedProjects[i].status = "failed"
          /\ SharedProjects[i].error = "An unexpected critical error occurred"
          /\ SharedProjects[i].metadata # EmptyDict
          /\ "trust_score" \in DOMAIN SharedProjects[i].scores


\* the records of the Context with status "success"
SuccessRecords == {i \in 1..Len(SharedProjects) : SharedProjects[i].status = "success"}

\* the sum of the trust_score of the first n records that have status "success"
RECURSIVE TrustTotal(_)
TrustTotal(n) ==
    IF n = 0 THEN 0
    ELSE TrustTotal(n - 1)
         + (IF n \in SuccessRecords THEN SharedProjects[n].scores["trust_score"] ELSE 0)

\* every failed record has its three scores, all 0
FailedScoresZero ==
    \A i \in 1..Len(SharedProjects) :
        SharedProjects[i].status = "failed" =>
            \A k \in {"contribution_score", "originality_score", "trust_score"} :
                /\ k \in DOMAIN SharedProjects[i].scores
                /\ SharedProjects[i].scores[k] = 0

\* num_successful_projects counts the records with status "success"
CountsSuccessful ==
    SharedMetrics["num_successful_projects"] = Cardinality(SuccessRecords)

\* C23 as stated: when the run has returned, every failed record has the
\* three scores 0, num_successful_projects is the number of records with
\* status "success", and overall_candidate_score is the mean of the
\* trust_score of those records.
C23_ExactMean ==
    phase = "done" =>
        /\ FailedScoresZero
        /\ CountsSuccessful
        /\ SuccessRecords # {} =>
              SharedMetrics["overall_candidate_score"] * Cardinality(SuccessRecords)
                  = TrustTotal(Len(SharedProjects))

\* the aggregate of a run that returned, with the mean rounded to two decimals
RoundedMeanAtReturn ==
    /\ FailedScoresZero
    /\ CountsSuccessful
    /\ SharedMetrics["overall_candidate_score"] =
          IF SuccessRecords # {}
          THEN RoundHalfEven(TrustTotal(Len(SharedProjects)), Cardinality(SuccessRecords))
          ELSE 0

\* C23 amended: the step by which the run returns leaves every failed record
\* with the three scores 0, num_successful_projects equal to the number of
\* records with status "success", and overall_candidate_score equal to the
\* mean of the trust_score of those records rounded to two decimals (0 when
\* there is none).
C23_RoundedMean ==
    [][(phase # "done" /\ phase' = "done") => RoundedMeanAtReturn']_vars

\* C23 witness: a run returned with three failed records and two fetched
\* ones whose mean trust_score has three decimals
C23_Witness ==
    /\ phase = "done"
    /\ Cardinality(SuccessRecords) = 2
    /\ Len(SharedProjects) = 5
    /\ TrustTotal(Len(SharedProjects)) % 2 = 1
    /\ RoundedMeanAtReturn


\* every star count fetched in the run is a non-negative integer
StarsAreNaturals ==
    \A i \in 1..Len(SharedProjects) :
        "stars" \in DOMAIN SharedProjects[i].metadata =>
            /\ SharedProjects[i].metadata["stars"] # PyNone
            /\ SharedProjects[i].metadata["stars"].v >= 0

\* score s of record i, once written, lies between lo and hi (in cents)
ScoreIn(i, s, lo, hi) ==
    s \in DOMAIN SharedProjects[i].scores =>
        (lo <= SharedProjects[i].scores[s] /\ SharedProjects[i].scores[s] <= hi)

\* overall scores between which the rating is compared, in increasing order
SampleScores == <<0, 1, 50, 2175, 7075, 8538, 9999, 10000>>

\* C24: in a run whose star counts are non-negative integers, at every
\* moment each score written so far is in its range (in cents):
\* contribution_score and trust_score in [0, 100], originality_score 0, 100
\* or in [30, 70], overall_candidate_score in [0, 100], and elo_score equal
\* to 800 + 12 * overall_candidate_score, hence in [800, 2000]; and the
\* rating never decreases when the overall score increases.
C24_ScoresInRange ==
    /\ StarsAreNaturals =>
          /\ \A i \in 1..Len(SharedProjects) :
                /\ ScoreIn(i, "contribution_score", 0, 10000)
                /\ \/ ScoreIn(i, "originality_score", 0, 0)
                   \/ ScoreIn(i, "originality_score", 10000, 10000)
                   \/ ScoreIn(i, "originality_score", 3000, 7000)
                /\ ScoreIn(i, "trust_score", 0, 10000)
          /\ "overall_candidate_score" \in DOMAIN SharedMetrics =>
                /\ 0 <= SharedMetrics["overall_candidate_score"]
                /\ SharedMetrics["overall_candidate_score"] <= 10000
          /\ "elo_score" \in DOMAIN SharedMetrics =>
                /\ SharedMetrics["elo_score"] =
                      80000 + 12 * SharedMetrics["overall_candidate_score"]
                /\ 80000 <= SharedMetrics["elo_score"]
                /\ SharedMetrics["elo_score"] <= 200000
    /\ \A k \in 1..(Len(SampleScores) - 1) :
          EloScore(SampleScores[k]) <= EloScore(SampleScores[k + 1])

\* C24 witness: a run returned with a repository of 20000 stars, whose
\* contribution_score is capped at 100, and a fork whose originality_score was
\* drawn at 70
C24_Witness ==
    /\ phase = "done"
    /\ StarsAreNaturals
    /\ \E i \in 1..Len(SharedProjects), j \in 1..Len(SharedProjects) :
          /\ SharedProjects[i].status = "success"
          /\ SharedProjects[i].metadata["stars"] = PyInt(20000)
          /\ SharedProjects[i].scores["contribution_score"] = 10000
          /\ SharedProjects[j].status = "success"
          /\ SharedProjects[j].scores["originality_score"] = 7000
    /\ SharedMetrics["elo_score"] > 80000


\* C25: once the post of GitHubAnalyzerNode has stored the records,
\* analyzed_github_projects holds one record for each entry of
\* github_project_urls, and the url of the record at an index is the entry at
\* that index.
C25_OneRecordPerUrl ==
    Called("GitHubAnalyzerNode", "post") =>
        /\ Len(SharedProjects) = Len(SharedUrls)
        /\ \A i \in 1..Len(SharedUrls) :
              i <= Len(SharedProjects) /\ SharedProjects[i].url = SharedUrls[i]

=============================================================================
